---------------------------- MODULE Spec2Model ----------------------------
(* A model of commit-gpt (src/src/main.rs): run(), get_structured_changes,  *)
(* get_combined_diff, collect_changes, summarize_change and                 *)
(* format_changes_for_prompt.                                               *)
(*                                                                          *)
(* A Rust String is modelled as what it is: a sequence of bytes (0..255)    *)
(* holding valid UTF-8.  len() is the number of bytes, a slice cuts at a    *)
(* byte index and panics when that index is inside a character.             *)
EXTENDS Integers, Sequences, FiniteSets, TLC

VARIABLES
    pc,                 \* position in run() / get_structured_changes
    repo,               \* the repository: head state, HEAD tree, index, workdir
    include_unstaged,   \* args.include_unstaged
    diff,               \* the git2::Diff: a sequence of deltas, each with its lines
    di, li,             \* position of diff.foreach: delta index, line index
    changes_map,        \* collect_changes: the entries of the HashMap
    changes,            \* collect_changes: the returned Vec<FileChange>
    structured_changes, \* the String get_structured_changes returns
    request_sent,       \* whether client.post(..).send() was called
    response,           \* the HTTP response received
    stdout,             \* what println! wrote
    error,              \* the Err run() returned ("none" while there is none)
    exit_code           \* the process's exit code (-1 while running)

vars == <<pc, repo, include_unstaged, diff, di, li, changes_map, changes,
          structured_changes, request_sent, response, stdout, error, exit_code>>

-----------------------------------------------------------------------------
(* Bounds of the model.                                                     *)

\* deltas of a diff given to collect_changes
MaxDeltas == 2
\* lines of a diff given to collect_changes, over all its deltas
MaxLines == 2
\* bytes that follow the middle character of a long line
MaxTail == 4
\* how far before byte 77 the middle character of a long line may start
MaxBack == 3
\* blobs the second file of the repository may hold (0 is "absent")
MaxBlobB == 1

-----------------------------------------------------------------------------
(* Strings.                                                                 *)

\* content.len() > 80
MaxSummaryLen == 80
\* &content[..77]
KeepLen == 77

AddedPrefix == <<65, 100, 100, 101, 100, 58, 32>>                 \* "Added: "
RemovedPrefix == <<82, 101, 109, 111, 118, 101, 100, 58, 32>>     \* "Removed: "
Ellipsis == <<46, 46, 46>>                                        \* "..."
UnknownFile == <<85, 110, 107, 110, 111, 119, 110, 32, 102, 105, 108, 101>>
ReplacementChar == <<239, 191, 189>>                              \* U+FFFD

RECURSIVE Rep(_, _)
Rep(b, n) == IF n <= 0 THEN <<>> ELSE <<b>> \o Rep(b, n - 1)

At(s, i) == IF i >= 1 /\ i <= Len(s) THEN s[i] ELSE 0

\* a UTF-8 continuation byte, 10xxxxxx
IsCont(x) == x >= 128 /\ x <= 191

\* The second byte a three- or four-byte sequence led by x admits.
SecondOk(x, y) ==
    CASE x = 224 -> y >= 160 /\ y <= 191
      [] x >= 225 /\ x <= 236 -> IsCont(y)
      [] x = 237 -> y >= 128 /\ y <= 159
      [] x >= 238 /\ x <= 239 -> IsCont(y)
      [] x = 240 -> y >= 144 /\ y <= 191
      [] x >= 241 /\ x <= 243 -> IsCont(y)
      [] x = 244 -> y >= 128 /\ y <= 143
      [] OTHER -> FALSE

\* One step of the lossy decoder at byte i of b: whether a valid character
\* starts there, and the bytes it (or the invalid sequence) takes.
Utf8Step(b, i) ==
    LET x == b[i] IN
    IF x < 128 THEN [ok |-> TRUE, n |-> 1]
    ELSE IF x >= 194 /\ x <= 223 THEN
        IF IsCont(At(b, i + 1)) THEN [ok |-> TRUE, n |-> 2]
        ELSE [ok |-> FALSE, n |-> 1]
    ELSE IF x >= 224 /\ x <= 239 THEN
        IF ~SecondOk(x, At(b, i + 1)) THEN [ok |-> FALSE, n |-> 1]
        ELSE IF ~IsCont(At(b, i + 2)) THEN [ok |-> FALSE, n |-> 2]
        ELSE [ok |-> TRUE, n |-> 3]
    ELSE IF x >= 240 /\ x <= 244 THEN
        IF ~SecondOk(x, At(b, i + 1)) THEN [ok |-> FALSE, n |-> 1]
        ELSE IF ~IsCont(At(b, i + 2)) THEN [ok |-> FALSE, n |-> 2]
        ELSE IF ~IsCont(At(b, i + 3)) THEN [ok |-> FALSE, n |-> 3]
        ELSE [ok |-> TRUE, n |-> 4]
    ELSE [ok |-> FALSE, n |-> 1]

RECURSIVE LossyFrom(_, _)
LossyFrom(b, i) ==
    IF i > Len(b) THEN <<>>
    ELSE LET s == Utf8Step(b, i) IN
         (IF s.ok THEN SubSeq(b, i, i + s.n - 1) ELSE ReplacementChar)
            \o LossyFrom(b, i + s.n)

\* String::from_utf8_lossy / Path::to_string_lossy: every invalid sequence
\* becomes U+FFFD.
from_utf8_lossy(b) == LossyFrom(b, 1)

\* Whether the character of n bytes starting at byte i of s is White_Space
\* (char::is_whitespace).
IsWhitespaceAt(s, i, n) ==
    LET x == At(s, i)
        y == At(s, i + 1)
        z == At(s, i + 2)
    IN CASE n = 1 -> (x >= 9 /\ x <= 13) \/ x = 32
         [] n = 2 -> x = 194 /\ (y = 133 \/ y = 160)
         [] n = 3 -> \/ x = 225 /\ y = 154 /\ z = 128
                     \/ x = 226 /\ y = 128 /\ z >= 128 /\ z <= 138
                     \/ x = 226 /\ y = 128 /\ z \in {168, 169, 175}
                     \/ x = 226 /\ y = 129 /\ z = 159
                     \/ x = 227 /\ y = 128 /\ z = 128
         [] OTHER -> FALSE

\* The byte length of the character that starts at byte i of the valid string s.
CharLenAt(s, i) ==
    LET x == s[i] IN
    IF x < 128 THEN 1 ELSE IF x < 224 THEN 2 ELSE IF x < 240 THEN 3 ELSE 4

\* The byte index at which the last character of the valid, non-empty s starts.
RECURSIVE LastCharStart(_, _)
LastCharStart(s, i) == IF i > 1 /\ IsCont(s[i]) THEN LastCharStart(s, i - 1) ELSE i

RECURSIVE trim_start(_)
trim_start(s) ==
    IF Len(s) = 0 THEN s
    ELSE LET n == CharLenAt(s, 1) IN
         IF IsWhitespaceAt(s, 1, n) THEN trim_start(SubSeq(s, n + 1, Len(s))) ELSE s

RECURSIVE trim_end(_)
trim_end(s) ==
    IF Len(s) = 0 THEN s
    ELSE LET i == LastCharStart(s, Len(s)) IN
         IF IsWhitespaceAt(s, i, Len(s) - i + 1) THEN trim_end(SubSeq(s, 1, i - 1)) ELSE s

\* str::trim
trim(s) == trim_end(trim_start(s))

\* str::is_char_boundary(idx), idx counted from 0
is_char_boundary(s, idx) ==
    \/ idx = 0
    \/ idx = Len(s)
    \/ idx < Len(s) /\ ~IsCont(s[idx + 1])

\* the number of characters of the valid string s
CharCount(s) == Cardinality({i \in 1..Len(s) : ~IsCont(s[i])})

-----------------------------------------------------------------------------
(* summarize_change                                                         *)

\* String::from_utf8_lossy(line.content()).trim().to_string()
LineText(line) == trim(from_utf8_lossy(line.content))

\* the condition of the truncation
TooLong(content) == Len(content) > MaxSummaryLen

\* &content[..77] panics when byte 77 is not a character boundary
SlicePanics(content) == ~is_char_boundary(content, KeepLen)

\* whether summarize_change(line) panics; the truncation is computed before
\* the origin is looked at
summarize_panics(line) ==
    LET content == LineText(line) IN TooLong(content) /\ SlicePanics(content)

truncated_content(content) ==
    IF TooLong(content) THEN SubSeq(content, 1, KeepLen) \o Ellipsis ELSE content

\* summarize_change with a summary for every origin
summarize_change_any_origin(line) ==
    LET t == truncated_content(LineText(line)) IN
    CASE line.origin = "+" -> AddedPrefix \o t
      [] line.origin = "-" -> RemovedPrefix \o t
      [] OTHER -> <<67, 111, 110, 116, 101, 120, 116, 58, 32>> \o t

\* summarize_change(line), where it does not panic
summarize_change(line) ==
    LET t == truncated_content(LineText(line)) IN
    CASE line.origin = "+" -> AddedPrefix \o t
      [] line.origin = "-" -> RemovedPrefix \o t
      [] OTHER -> <<>>

-----------------------------------------------------------------------------
(* collect_changes                                                          *)

\* An Option<&Path> is <<>> (None) or <<p>> (Some(p)).
\* delta.new_file().path().or_else(|| delta.old_file().path())
\*      .map(|p| p.to_string_lossy().to_string())
\*      .unwrap_or_else(|| "Unknown file".to_string())
file_path_of(delta) ==
    IF Len(delta.new_path) > 0 THEN from_utf8_lossy(delta.new_path[1])
    ELSE IF Len(delta.old_path) > 0 THEN from_utf8_lossy(delta.old_path[1])
    ELSE UnknownFile

\* match delta.status() { .. }
change_type_of(status) ==
    CASE status = "Added" -> <<65, 100, 100, 101, 100>>
      [] status = "Deleted" -> <<68, 101, 108, 101, 116, 101, 100>>
      [] status = "Modified" -> <<77, 111, 100, 105, 102, 105, 101, 100>>
      [] status = "Renamed" -> <<82, 101, 110, 97, 109, 101, 100>>
      [] status = "Copied" -> <<67, 111, 112, 105, 101, 100>>
      [] OTHER -> <<77, 111, 100, 105, 102, 105, 101, 100>>

HasKey(map, path) == \E i \in 1..Len(map) : map[i].file_path = path

\* changes_map.insert(file_path.clone(), FileChange { .. }): the entry of the
\* path is replaced
insert_overwrite(map, fc) ==
    IF HasKey(map, fc.file_path)
    THEN [i \in 1..Len(map) |-> IF map[i].file_path = fc.file_path THEN fc ELSE map[i]]
    ELSE Append(map, fc)

\* changes_map.entry(file_path.clone()).or_insert(FileChange { .. }): the map
\* is the sequence of its entries, in the order they were inserted
or_insert(map, fc) == IF HasKey(map, fc.file_path) THEN map ELSE Append(map, fc)

\* file_change.summaries.push(summary), on the entry of path
push_summary(map, path, summary) ==
    [i \in 1..Len(map) |->
        IF map[i].file_path = path
        THEN [map[i] EXCEPT !.summaries = Append(@, summary)]
        ELSE map[i]]

\* the line callback of diff.foreach, where summarize_change does not panic
line_cb(map, delta, line) ==
    LET file_path == file_path_of(delta)
        summary == summarize_change(line)
        entered == or_insert(map, [file_path |-> file_path,
                                   change_type |-> change_type_of(delta.status),
                                   summaries |-> <<>>])
    IN IF summary # <<>> THEN push_summary(entered, file_path, summary) ELSE entered

\* changes_map.into_iter().map(|(_, v)| v).collect(): a HashMap yields its
\* entries in an arbitrary order
into_iter_orders(map) ==
    {[i \in 1..Len(map) |-> map[f[i]]] : f \in Permutations(1..Len(map))}

-----------------------------------------------------------------------------
(* format_changes_for_prompt                                                *)

\* format!("- **{}**: {}\n", change.file_path, change.change_type)
heading_line(change) ==
    <<45, 32, 42, 42>> \o change.file_path \o <<42, 42, 58, 32>>
        \o change.change_type \o <<10>>

\* format!("  - {}\n", summary)
RECURSIVE summary_lines(_)
summary_lines(summaries) ==
    IF Len(summaries) = 0 THEN <<>>
    ELSE <<32, 32, 45, 32>> \o Head(summaries) \o <<10>> \o summary_lines(Tail(summaries))

format_one(change) == heading_line(change) \o summary_lines(change.summaries)

\* for change in changes { .. }, from the i-th change on
RECURSIVE FormatFrom(_, _)
FormatFrom(chs, i) ==
    IF i > Len(chs) THEN <<>> ELSE format_one(chs[i]) \o FormatFrom(chs, i + 1)

\* the loop started at the second change
format_from_second(chs) == FormatFrom(chs, 2)

format_changes_for_prompt(chs) == FormatFrom(chs, 1)

-----------------------------------------------------------------------------
(* The steps of get_structured_changes after get_combined_diff.             *)

Traversing == pc = "foreach" /\ di <= Len(diff)
CurDelta == diff[di]
CurLine == diff[di].lines[li]

RunVarsUnchanged ==
    UNCHANGED <<repo, include_unstaged, diff, request_sent, response, stdout, error>>

\* the file callback: |_delta, _progress| true; the hunk callback of the
\* delta's hunks does the same
FileCb ==
    /\ Traversing
    /\ li = 0
    /\ IF Len(CurDelta.lines) = 0
       THEN di' = di + 1 /\ li' = 0
       ELSE di' = di /\ li' = 1
    /\ UNCHANGED <<pc, changes_map, changes, structured_changes, exit_code>>
    /\ RunVarsUnchanged

\* the line callback, returning true
LineCb ==
    /\ Traversing
    /\ li >= 1
    /\ ~summarize_panics(CurLine)
    /\ changes_map' = line_cb(changes_map, CurDelta, CurLine)
    /\ IF li = Len(CurDelta.lines)
       THEN di' = di + 1 /\ li' = 0
       ELSE di' = di /\ li' = li + 1
    /\ UNCHANGED <<pc, changes, structured_changes, exit_code>>
    /\ RunVarsUnchanged

\* the line callback, where summarize_change panics: git2 stops the
\* traversal and resumes the panic, which unwinds through run() and main()
LineCbPanic ==
    /\ Traversing
    /\ li >= 1
    /\ summarize_panics(CurLine)
    /\ pc' = "panicked"
    /\ exit_code' = 101
    /\ UNCHANGED <<di, li, changes_map, changes, structured_changes>>
    /\ RunVarsUnchanged

\* diff.foreach(..).unwrap() returned; the map becomes the Vec
CollectReturn ==
    /\ pc = "foreach"
    /\ di > Len(diff)
    /\ changes' \in into_iter_orders(changes_map)
    /\ pc' = "format"
    /\ UNCHANGED <<di, li, changes_map, structured_changes, exit_code>>
    /\ RunVarsUnchanged

\* Ok(format_changes_for_prompt(&changes))
Format ==
    /\ pc = "format"
    /\ structured_changes' = format_changes_for_prompt(changes)
    /\ pc' = "check_empty"
    /\ UNCHANGED <<di, li, changes_map, changes, exit_code>>
    /\ RunVarsUnchanged

-----------------------------------------------------------------------------
(* collect_changes and format_changes_for_prompt on any diff.               *)

PathA == <<97>>
PathB == <<98>>

DeltaHeaders ==
    { [new_path |-> <<PathA>>, old_path |-> <<PathA>>, status |-> "Modified"],
      [new_path |-> <<PathA>>, old_path |-> <<PathA>>, status |-> "Added"],
      [new_path |-> <<>>,      old_path |-> <<PathA>>, status |-> "Deleted"],
      [new_path |-> <<PathB>>, old_path |-> <<PathA>>, status |-> "Renamed"],
      [new_path |-> <<PathB>>, old_path |-> <<PathB>>, status |-> "Copied"],
      [new_path |-> <<>>,      old_path |-> <<>>,      status |-> "Untracked"] }

ShortLines ==
    { [origin |-> "+", content |-> <<120, 10>>],
      [origin |-> "-", content |-> <<32, 121, 10>>],
      [origin |-> " ", content |-> <<122, 10>>] }

\* the characters put around byte 77 of a long line: none, two, three and
\* four bytes long, an invalid byte, a sequence cut short
MiddleChars ==
    { <<>>, <<195, 169>>, <<226, 130, 172>>, <<240, 159, 152, 128>>,
      <<255>>, <<226, 130>> }

LongLines ==
    { [origin |-> o,
       content |-> Rep(97, n) \o mid \o Rep(97, t) \o <<10>>] :
        o \in {"+", "-", " "},
        n \in (KeepLen - MaxBack)..(KeepLen + 1),
        mid \in MiddleChars,
        t \in 0..MaxTail }

MkDelta(h, ls) ==
    [new_path |-> h.new_path, old_path |-> h.old_path, status |-> h.status,
     lines |-> ls]

\* where the lines of nd deltas end in a sequence of k lines
Cuts(nd, k) ==
    { c \in [1..nd -> 0..k] :
        /\ \A d \in 1..(nd - 1) : c[d] <= c[d + 1]
        /\ IF nd = 0 THEN k = 0 ELSE c[nd] = k }

\* the diff of the deltas of headers hs that share the lines of flat as cut says
MkDiff(hs, flat, cut) ==
    [d \in 1..Len(hs) |->
        MkDelta(hs[d], SubSeq(flat, (IF d = 1 THEN 0 ELSE cut[d - 1]) + 1, cut[d]))]

AFewHeaders ==
    { h \in DeltaHeaders : h.status \in {"Modified", "Untracked"} }

\* the line that makes summarize_change panic
PanicLine(o) ==
    [origin |-> o,
     content |-> Rep(97, KeepLen - 1) \o <<195, 169>> \o Rep(97, MaxTail) \o <<10>>]

\* The diffs collect_changes is given: up to MaxDeltas deltas of any header
\* sharing up to MaxLines short lines; one delta of one long line; one delta
\* of a line that panics followed by a short line.
CollectInput(d) ==
    \/ \E nd \in 0..MaxDeltas, k \in 0..MaxLines :
         \E hs \in [1..nd -> DeltaHeaders], flat \in [1..k -> ShortLines],
            cut \in Cuts(nd, k) :
            d = MkDiff(hs, flat, cut)
    \/ \E h \in AFewHeaders, l \in LongLines : d = <<MkDelta(h, <<l>>)>>
    \/ \E h \in AFewHeaders, o \in {"+", "-", " "}, l \in ShortLines :
         d = <<MkDelta(h, <<PanicLine(o), l>>)>>

NoRepo == [head_state |-> "none", head |-> <<>>, index |-> <<>>, workdir |-> <<>>]
NoResponse == [status |-> 0, json_ok |-> FALSE, choices |-> <<>>]

InitCollect ==
    /\ pc = "foreach"
    /\ CollectInput(diff)
    /\ di = 1
    /\ li = 0
    /\ changes_map = <<>>
    /\ changes = <<>>
    /\ structured_changes = <<>>
    /\ repo = NoRepo
    /\ include_unstaged = FALSE
    /\ request_sent = FALSE
    /\ response = NoResponse
    /\ stdout = <<>>
    /\ error = "none"
    /\ exit_code = -1

NextCollect ==
    \/ FileCb
    \/ LineCb
    \/ LineCbPanic
    \/ CollectReturn
    \/ Format

SpecCollect == InitCollect /\ [][NextCollect]_vars

-----------------------------------------------------------------------------
(* The repository and get_combined_diff.                                    *)

Paths == {PathA, PathB}
PathOrder == <<PathA, PathB>>

\* the lines of the files' versions
LineOne == <<102, 110, 32, 109, 97, 105, 110, 10>>
LineTwo == <<32, 32, 114, 117, 110, 40, 41, 59, 10>>
LineLong == Rep(97, KeepLen - 1) \o <<195, 169>> \o Rep(97, MaxTail) \o <<10>>

\* The blobs a path may hold; 0 is "no such file" and 3 is an empty file.
BlobLines(b) ==
    CASE b = 1 -> <<LineOne>>
      [] b = 2 -> <<LineOne, LineTwo>>
      [] b = 4 -> <<LineOne, LineLong>>
      [] OTHER -> <<>>

BlobsA == {0, 1, 2, 3, 4}
BlobsB == 0..MaxBlobB

Trees == {[p \in Paths |-> IF p = PathA THEN a ELSE b] : a \in BlobsA, b \in BlobsB}
EmptyTree == [p \in Paths |-> 0]

RECURSIVE CommonPrefix(_, _)
CommonPrefix(old, new) ==
    IF Len(old) = 0 \/ Len(new) = 0 \/ Head(old) # Head(new) THEN 0
    ELSE 1 + CommonPrefix(Tail(old), Tail(new))

\* The lines git2 gives the line callback for a file whose content went from
\* old to new: the unchanged lines before the change as context, the lines
\* removed, the lines added.
patch_lines(old, new) ==
    LET k == CommonPrefix(old, new) IN
    [i \in 1..k |-> [origin |-> " ", content |-> old[i]]]
        \o [i \in 1..(Len(old) - k) |-> [origin |-> "-", content |-> old[k + i]]]
        \o [i \in 1..(Len(new) - k) |-> [origin |-> "+", content |-> new[k + i]]]

\* The delta of path p in a diff of the HEAD tree against the index (none
\* when the blobs are the same).
index_delta(head, index, p) ==
    IF head[p] = index[p] THEN <<>>
    ELSE << [new_path |-> <<p>>, old_path |-> <<p>>,
             status |-> IF head[p] = 0 THEN "Added"
                        ELSE IF index[p] = 0 THEN "Deleted" ELSE "Modified",
             lines |-> patch_lines(BlobLines(head[p]), BlobLines(index[p]))] >>

RECURSIVE IndexDeltas(_, _, _)
IndexDeltas(head, index, ps) ==
    IF Len(ps) = 0 THEN <<>>
    ELSE index_delta(head, index, Head(ps)) \o IndexDeltas(head, index, Tail(ps))

\* repo.diff_tree_to_index(Some(&head), Some(&index), ..): one delta per path
\* whose blob differs between the HEAD tree and the index, in path order; the
\* working tree is not read
diff_tree_to_index(head, index) == IndexDeltas(head, index, PathOrder)

\* The delta of path p in a diff of the HEAD tree against the working tree:
\* a file the tree does not hold is Untracked, listed when include_untracked
\* is set, and its content is not part of the patch.
workdir_delta(head, workdir, include_untracked, p) ==
    IF head[p] = workdir[p] THEN <<>>
    ELSE IF head[p] = 0
    THEN IF include_untracked
         THEN << [new_path |-> <<p>>, old_path |-> <<p>>,
                  status |-> "Untracked", lines |-> <<>>] >>
         ELSE <<>>
    ELSE << [new_path |-> <<p>>, old_path |-> <<p>>,
             status |-> IF workdir[p] = 0 THEN "Deleted" ELSE "Modified",
             lines |-> patch_lines(BlobLines(head[p]), BlobLines(workdir[p]))] >>

RECURSIVE WorkdirDeltas(_, _, _, _)
WorkdirDeltas(head, workdir, include_untracked, ps) ==
    IF Len(ps) = 0 THEN <<>>
    ELSE workdir_delta(head, workdir, include_untracked, Head(ps))
            \o WorkdirDeltas(head, workdir, include_untracked, Tail(ps))

\* repo.diff_tree_to_workdir(Some(&head), ..)
diff_tree_to_workdir(head, workdir, include_untracked) ==
    WorkdirDeltas(head, workdir, include_untracked, PathOrder)

\* repo.head()?.peel_to_tree()? succeeds only on a repository with a commit
head_resolves(r) == r.head_state = "born"

\* get_combined_diff comparing with the working tree whatever the flag
get_combined_diff_workdir(r, unstaged) ==
    diff_tree_to_workdir(r.head, r.workdir, unstaged)

\* the Diff get_combined_diff returns when the HEAD tree resolves
get_combined_diff(r, unstaged) ==
    IF unstaged
    THEN diff_tree_to_workdir(r.head, r.workdir, TRUE)
    ELSE diff_tree_to_index(r.head, r.index)

-----------------------------------------------------------------------------
(* run() and main().                                                        *)

\* return Err(e) from run(): main prints it and exits with 1
Fail(e) ==
    /\ pc' = "exit"
    /\ error' = e
    /\ exit_code' = 1

CoreUnchanged ==
    UNCHANGED <<repo, include_unstaged, diff, di, li, changes_map, changes,
                structured_changes>>

\* fs::read_to_string(&args.api_key_path)
ReadApiKey ==
    /\ pc = "read_api_key"
    /\ \/ pc' = "open_repo" /\ UNCHANGED <<error, exit_code>>
       \/ Fail("ApiKeyReadError")
    /\ CoreUnchanged
    /\ UNCHANGED <<request_sent, response, stdout>>

\* Repository::open(&args.workdir_path)?
OpenRepo ==
    /\ pc = "open_repo"
    /\ \/ pc' = "get_combined_diff" /\ UNCHANGED <<error, exit_code>>
       \/ Fail("GitError(Repository::open)")
    /\ CoreUnchanged
    /\ UNCHANGED <<request_sent, response, stdout>>

\* get_combined_diff(repo, include_unstaged)?, the HEAD tree resolved
GetCombinedDiff ==
    /\ pc = "get_combined_diff"
    /\ head_resolves(repo)
    /\ diff' = get_combined_diff(repo, include_unstaged)
    /\ di' = 1
    /\ li' = 0
    /\ pc' = "foreach"
    /\ UNCHANGED <<repo, include_unstaged, changes_map, changes, structured_changes,
                   request_sent, response, stdout, error, exit_code>>

\* repo.head()? or peel_to_tree()? returned an error: there is no commit yet
\* (UnbornBranch), or the repository is damaged
GetCombinedDiffHeadErr ==
    /\ pc = "get_combined_diff"
    /\ ~head_resolves(repo)
    /\ Fail("GitError(repo.head)")
    /\ CoreUnchanged
    /\ UNCHANGED <<request_sent, response, stdout>>

\* repo.index()? or the diff itself returned an error
GetCombinedDiffErr ==
    /\ pc = "get_combined_diff"
    /\ head_resolves(repo)
    /\ Fail("GitError(diff)")
    /\ CoreUnchanged
    /\ UNCHANGED <<request_sent, response, stdout>>

NoticeAll == [kind |-> "no_changes", text |-> <<>>]
NoticeStaged == [kind |-> "no_staged_changes", text |-> <<>>]

\* run() without the early return on an empty result
CheckEmptyNoReturn ==
    /\ pc = "check_empty"
    /\ pc' = "build_client"
    /\ UNCHANGED <<stdout, exit_code>>
    /\ CoreUnchanged
    /\ UNCHANGED <<request_sent, response, error>>

\* if structured_changes.is_empty() { println!(..); return Ok(()); }
CheckEmpty ==
    /\ pc = "check_empty"
    /\ IF Len(structured_changes) = 0
       THEN /\ stdout' = Append(stdout, IF include_unstaged THEN NoticeAll ELSE NoticeStaged)
            /\ pc' = "exit"
            /\ exit_code' = 0
       ELSE /\ pc' = "build_client"
            /\ UNCHANGED <<stdout, exit_code>>
    /\ CoreUnchanged
    /\ UNCHANGED <<request_sent, response, error>>

\* Client::builder().use_rustls_tls().build()?
BuildClient ==
    /\ pc = "build_client"
    /\ \/ pc' = "send" /\ UNCHANGED <<error, exit_code>>
       \/ Fail("HttpRequestError")
    /\ CoreUnchanged
    /\ UNCHANGED <<request_sent, response, stdout>>

\* the responses the API may give: a status, whether the body parses as an
\* OpenAIResponse, and the contents of its choices
Responses ==
    { [status |-> 200, json_ok |-> TRUE, choices |-> c] :
        c \in { <<>>,
                << <<32, 10>> >>,
                << <<32, 102, 105, 120, 10>> >>,
                << <<>>, <<102, 105, 120>> >> } }
    \cup { [status |-> 200, json_ok |-> FALSE, choices |-> <<>>],
           [status |-> 401, json_ok |-> TRUE, choices |-> <<>>],
           [status |-> 500, json_ok |-> FALSE, choices |-> <<>>] }

\* client.post(OPENAI_API_URL)...send()?
SendRequest ==
    /\ pc = "send"
    /\ request_sent' = TRUE
    /\ \/ /\ response' \in Responses
          /\ pc' = "handle_response"
          /\ UNCHANGED <<error, exit_code>>
       \/ /\ Fail("HttpRequestError")
          /\ UNCHANGED response
    /\ CoreUnchanged
    /\ UNCHANGED stdout

\* response.status().is_success()
is_success(status) == status >= 200 /\ status <= 299

\* resp_json.choices.get(0)...message.content.trim().to_string()
commit_message(resp) == trim(resp.choices[1])

\* if response.status().is_success() { .. } else { .. }
HandleResponse ==
    /\ pc = "handle_response"
    /\ IF ~is_success(response.status) THEN Fail("ApiErrorStatus") /\ UNCHANGED stdout
       ELSE IF ~response.json_ok THEN Fail("HttpRequestError") /\ UNCHANGED stdout
       ELSE IF Len(response.choices) = 0 THEN Fail("NoCommitMessage") /\ UNCHANGED stdout
       ELSE IF Len(commit_message(response)) = 0
            THEN Fail("NoCommitMessage") /\ UNCHANGED stdout
       ELSE /\ stdout' = Append(stdout, [kind |-> "message",
                                          text |-> commit_message(response)])
            /\ pc' = "exit"
            /\ exit_code' = 0
            /\ UNCHANGED error
    /\ CoreUnchanged
    /\ UNCHANGED <<request_sent, response>>

Repos ==
    { [head_state |-> hs, head |-> h, index |-> i, workdir |-> w] :
        hs \in {"born", "unborn", "corrupt"}, h \in Trees, i \in Trees, w \in Trees }

Init ==
    /\ pc = "read_api_key"
    /\ repo \in {r \in Repos : r.head_state # "born" => r.head = EmptyTree}
    /\ include_unstaged \in BOOLEAN
    /\ diff = <<>>
    /\ di = 1
    /\ li = 0
    /\ changes_map = <<>>
    /\ changes = <<>>
    /\ structured_changes = <<>>
    /\ request_sent = FALSE
    /\ response = NoResponse
    /\ stdout = <<>>
    /\ error = "none"
    /\ exit_code = -1

Next ==
    \/ ReadApiKey
    \/ OpenRepo
    \/ GetCombinedDiff
    \/ GetCombinedDiffHeadErr
    \/ GetCombinedDiffErr
    \/ FileCb
    \/ LineCb
    \/ LineCbPanic
    \/ CollectReturn
    \/ Format
    \/ CheckEmpty
    \/ BuildClient
    \/ SendRequest
    \/ HandleResponse

Spec == Init /\ [][Next]_vars

-----------------------------------------------------------------------------
(* What the properties speak of.                                            *)

StartsWith(s, pre) == Len(s) >= Len(pre) /\ SubSeq(s, 1, Len(pre)) = pre

\* the index of the first newline of s at or after i, 0 when there is none
RECURSIVE FirstNewline(_, _)
FirstNewline(s, i) ==
    IF i > Len(s) THEN 0 ELSE IF s[i] = 10 THEN i ELSE FirstNewline(s, i + 1)

\* the lines of a text, without their newlines
RECURSIVE SplitLines(_)
SplitLines(s) ==
    IF Len(s) = 0 THEN <<>>
    ELSE LET k == FirstNewline(s, 1) IN
         IF k = 0 THEN <<s>>
         ELSE <<SubSeq(s, 1, k - 1)>> \o SplitLines(SubSeq(s, k + 1, Len(s)))

OutputLines == SplitLines(structured_changes)

\* "- **<path>**: "
HeadingStart(p) == <<45, 32, 42, 42>> \o p \o <<42, 42, 58, 32>>

HasHeadingFor(p) ==
    \E i \in 1..Len(OutputLines) : StartsWith(OutputLines[i], HeadingStart(p))

\* every line of the diff with its owning delta, in the order of the traversal
RECURSIVE DiffLinesFrom(_)
DiffLinesFrom(d) ==
    IF d > Len(diff) THEN <<>>
    ELSE [l \in 1..Len(diff[d].lines) |->
            [path |-> file_path_of(diff[d]), status |-> diff[d].status,
             line |-> diff[d].lines[l], d |-> d, l |-> l]]
         \o DiffLinesFrom(d + 1)

\* the line callback was called for it and returned
IsDone(r) == r.d < di \/ (r.d = di /\ r.l < li)

\* the line callback was called for it
IsVisited(r) == IsDone(r) \/ (pc = "panicked" /\ r.d = di /\ r.l = li)

IsChange(r) == r.line.origin \in {"+", "-"}

DoneLines == SelectSeq(DiffLinesFrom(1), IsDone)
VisitedLines == SelectSeq(DiffLinesFrom(1), IsVisited)

DoneFor(p) == SelectSeq(DoneLines, LAMBDA r : r.path = p)
VisitedFor(p) == SelectSeq(VisitedLines, LAMBDA r : r.path = p)
DoneChangesFor(p) == SelectSeq(DoneFor(p), IsChange)
VisitedChangesFor(p) == SelectSeq(VisitedFor(p), IsChange)

PathsOf(lines) == {lines[i].path : i \in 1..Len(lines)}

Born == repo.head_state = "born"

\* present in the working tree, absent from the HEAD tree and from the index
Untracked(p) == repo.head[p] = 0 /\ repo.index[p] = 0 /\ repo.workdir[p] # 0

MessagePrinted == \E i \in 1..Len(stdout) : stdout[i].kind = "message"

-----------------------------------------------------------------------------
(* C1: with include_unstaged false on a repository with a commit, a heading *)
(* of the output names only a file whose blob differs between the HEAD tree *)
(* and the index; no untracked file has a heading.                          *)
C1_StagedOnlyReportsIndex ==
    (Born /\ ~include_unstaged) =>
        \A p \in Paths :
            HasHeadingFor(p) => (repo.head[p] # repo.index[p] /\ ~Untracked(p))

C1_Witness ==
    /\ pc = "check_empty"
    /\ Born
    /\ ~include_unstaged
    /\ Untracked(PathB)
    /\ HasHeadingFor(PathA)
    /\ ~HasHeadingFor(PathB)

(* C2: on a repository without a commit, get_structured_changes returns no  *)
(* failure: resolving HEAD is not an error there.                           *)
C2_NoHistoryIsNoFailure ==
    repo.head_state = "unborn" => error # "GitError(repo.head)"

(* C3: every delta of the diff has a heading line in the output, also a     *)
(* delta for which no line is visited.                                      *)
C3_EveryDeltaHasHeading ==
    pc = "check_empty" =>
        \A d \in 1..Len(diff) : HasHeadingFor(file_path_of(diff[d]))

(* C4: collect_changes and summarize_change never abort, whatever the       *)
(* content of a line.                                                       *)
C4_NeverAborts == pc # "panicked"

\* the first n characters of the valid string s
RECURSIVE FirstChars(_, _)
FirstChars(s, n) ==
    IF n = 0 \/ Len(s) = 0 THEN <<>>
    ELSE LET k == CharLenAt(s, 1) IN
         SubSeq(s, 1, k) \o FirstChars(SubSeq(s, k + 1, Len(s)), n - 1)

\* truncated(s) with the length counted in characters
TruncatedByChars(s) ==
    IF CharCount(s) > MaxSummaryLen THEN FirstChars(s, KeepLen) \o Ellipsis ELSE s

SummaryByChars(line) ==
    (IF line.origin = "+" THEN AddedPrefix ELSE RemovedPrefix)
        \o TruncatedByChars(LineText(line))

(* C5: the summary of every '+' or '-' line is its prefix followed by the   *)
(* trimmed content, cut to 77 characters and "..." when it has more than    *)
(* 80 characters and unchanged otherwise.                                   *)
C5_TruncatedByCharacters ==
    \A i \in 1..Len(changes_map) :
        LET e == changes_map[i]
            ch == DoneChangesFor(e.file_path)
        IN \A k \in 1..Len(e.summaries) :
              k <= Len(ch) => e.summaries[k] = SummaryByChars(ch[k].line)

(* C6: a line whose origin is neither '+' nor '-' adds no summary: each     *)
(* FileChange holds one summary per '+' or '-' line of its path, and each   *)
(* starts with "Added: " (origin '+') or "Removed: " (origin '-').          *)
C6_OnlyChangedLinesSummarized ==
    \A i \in 1..Len(changes_map) :
        LET e == changes_map[i]
            ch == DoneChangesFor(e.file_path)
        IN /\ Len(e.summaries) = Len(ch)
           /\ \A k \in 1..Len(e.summaries) :
                StartsWith(e.summaries[k],
                           IF ch[k].line.origin = "+" THEN AddedPrefix ELSE RemovedPrefix)

C6_Witness ==
    /\ pc = "check_empty"
    /\ \E i \in 1..Len(changes_map) :
          LET e == changes_map[i] IN
          /\ Len(e.summaries) = 1
          /\ Len(DoneFor(e.file_path)) = 2
          /\ \E k \in 1..2 : DoneFor(e.file_path)[k].line.origin = " "

(* C7: the ChangeSet holds one FileChange per path with a visited line,     *)
(* its kind the one of the delta of the first line seen for the path,       *)
(* whatever the status of the deltas of the later lines.                    *)
C7_OneRecordPerPath ==
    /\ \A i, j \in 1..Len(changes_map) :
          changes_map[i].file_path = changes_map[j].file_path => i = j
    /\ {changes_map[i].file_path : i \in 1..Len(changes_map)} = PathsOf(DoneLines)
    /\ \A i \in 1..Len(changes_map) :
          LET e == changes_map[i] IN
          /\ Len(DoneFor(e.file_path)) > 0
          /\ e.change_type = change_type_of(DoneFor(e.file_path)[1].status)

C7_Witness ==
    /\ pc = "check_empty"
    /\ Len(diff) = 2
    /\ Len(diff[1].lines) = 1
    /\ Len(diff[2].lines) = 1
    /\ file_path_of(diff[1]) = file_path_of(diff[2])
    /\ Len(changes_map) = 1
    /\ Len(changes_map[1].summaries) = 2
    /\ changes_map[1].change_type = change_type_of(diff[1].status)
    /\ changes_map[1].change_type # change_type_of(diff[2].status)

\* the target of the comparison holds what the HEAD tree holds
NoPendingDifferences ==
    \A p \in Paths :
        repo.head[p] = (IF include_unstaged THEN repo.workdir[p] ELSE repo.index[p])

(* C8: a diff without deltas, and so a repository without pending           *)
(* differences, gives the empty string; the text is empty if and only if    *)
(* there is no FileChange.                                                  *)
C8_EmptyIffNoChange ==
    pc = "check_empty" =>
        /\ NoPendingDifferences => Len(diff) = 0
        /\ Len(diff) = 0 => structured_changes = <<>>
        /\ structured_changes = <<>> <=> Len(changes) = 0

C8_Witness ==
    /\ pc = "check_empty"
    /\ NoPendingDifferences
    /\ repo.head[PathA] # 0
    /\ structured_changes = <<>>

\* the lines the text is to hold for the FileChange of path p: its heading,
\* then a bullet for each '+' or '-' line visited for p, in that order
ExpectedLinesFor(p) ==
    LET ch == VisitedChangesFor(p) IN
    << HeadingStart(p) \o change_type_of(VisitedFor(p)[1].status) >>
        \o [k \in 1..Len(ch) |-> <<32, 32, 45, 32>> \o summarize_change(ch[k].line)]

RECURSIVE ExpectedLinesFrom(_)
ExpectedLinesFrom(i) ==
    IF i > Len(changes) THEN <<>>
    ELSE ExpectedLinesFor(changes[i].file_path) \o ExpectedLinesFrom(i + 1)

EveryLineUnderItsHeading ==
    /\ \A i, j \in 1..Len(changes) :
          changes[i].file_path = changes[j].file_path => i = j
    /\ {changes[i].file_path : i \in 1..Len(changes)} = PathsOf(VisitedLines)
    /\ OutputLines = ExpectedLinesFrom(1)

(* C9: when the traversal is over, every '+' or '-' line visited is in the  *)
(* text once, as a bullet under the heading of its delta's path, the        *)
(* bullets of a heading in the order of the visits.                         *)
C9_EveryVisitedLineInText ==
    pc \in {"check_empty", "panicked"} => EveryLineUnderItsHeading

\* the same for the traversals that complete
C9_WhenTraversalCompletes ==
    pc = "check_empty" => EveryLineUnderItsHeading

(* C10: the request is sent only once the structured changes were computed  *)
(* and are not empty; an empty result ends the run with a notice and exit   *)
(* code 0; a message is printed only for a response with a success status   *)
(* whose first choice has non-blank content, and every other end after the  *)
(* request is an error with exit code 1.                                    *)
C10_RequestAfterChanges ==
    /\ request_sent =>
          /\ Len(structured_changes) > 0
          /\ structured_changes = format_changes_for_prompt(changes)
          /\ pc \in {"handle_response", "exit"}
    /\ (pc = "panicked" \/ error \in {"GitError(repo.head)", "GitError(diff)"})
          => ~request_sent
    /\ (pc = "exit" /\ error = "none" /\ ~request_sent) =>
          /\ structured_changes = <<>>
          /\ stdout = << IF include_unstaged THEN NoticeAll ELSE NoticeStaged >>
          /\ exit_code = 0
    /\ MessagePrinted =>
          /\ request_sent
          /\ is_success(response.status)
          /\ response.json_ok
          /\ Len(response.choices) > 0
          /\ Len(commit_message(response)) > 0
          /\ stdout = << [kind |-> "message", text |-> commit_message(response)] >>
          /\ exit_code = 0
          /\ error = "none"
    /\ (pc = "exit" /\ request_sent /\ ~MessagePrinted) =>
          /\ exit_code = 1
          /\ error # "none"
          /\ stdout = <<>>

C10_Witness ==
    /\ pc = "exit"
    /\ request_sent
    /\ MessagePrinted
    /\ exit_code = 0

=============================================================================
